---------------------------- MODULE Spec2Model ----------------------------
(***************************************************************************)
(* A model of structures/dataframe_entities.py: Field descriptors and the  *)
(* process-wide creation counter, the metaclass that resolves a class's    *)
(* ordered schema, record construction (_DataFrameEntity.__init__ and the  *)
(* value coercion it calls), and the CollectionClass wrapper around a      *)
(* table.                                                                  *)
(*                                                                         *)
(* Python values are written as strings: "None", "nan" (float NaN), the    *)
(* int 7 as "7", the str '7' as "'7'", the empty str as "''".              *)
(***************************************************************************)
EXTENDS Naturals, Sequences, FiniteSets, TLC

VARIABLES
    \* ---- schema resolution
    creation_counter,   \* Field.creation_counter, the class attribute
    heap,               \* the Field objects created so far, by identity
    classes,            \* the classes the metaclass has produced
    \* ---- record construction
    cls,                \* the record class under construction: its schema
    logger,             \* cls.logger
    kwargs,             \* the keyword mapping given to __init__
    pc,                 \* where the constructor is
    items,              \* the dict items __init__ still has to visit
    self_dict,          \* the instance's __dict__
    raised,             \* the exception that left __init__, or "None"
    log,                \* what reached the logging collaborator
    calls,              \* the calls made to parsers and generators
    trace,              \* per visited field: input, value after defaulting
    first,              \* the first record of a round trip, once rebuilt
    \* ---- collection
    coll,               \* the live collection objects, by identity
    iters,              \* the generators __iter__ has returned
    result,             \* what the last delegated access returned
    warnings            \* the warnings magic_trick logged

schemaVars == <<creation_counter, heap, classes>>
recordVars == <<cls, logger, kwargs, pc, items, self_dict, raised, log, calls,
                trace, first>>
collVars   == <<coll, iters, result, warnings>>
vars == <<schemaVars, recordVars, collVars>>

(***************************************************************************)
(* Bounds of the model.                                                    *)
(***************************************************************************)
MaxFields == 3          \* Field objects created in a behaviour
MaxClasses == 2         \* classes defined after DataFrameEntity itself
MaxRebuilds == 1        \* times a record is rebuilt from its own tuple
MaxRows == 2            \* rows of a wrapped table
MaxIters == 2           \* generators __iter__ hands out in a behaviour
MaxColls == 3           \* collection objects alive in a behaviour

\* the attribute names a class body may bind to a Field
AttributeNames == <<"a", "b">>
ColumnOverrides == {"A"}

Min(a, b) == IF a < b THEN a ELSE b
Range(s) == {s[i] : i \in 1..Len(s)}

\* The orders in which a dict of the keys S may hand out its items.
DictOrders(S) ==
    {o \in [1..Cardinality(S) -> S] : \A i, j \in 1..Cardinality(S) :
                                          i # j => o[i] # o[j]}

(***************************************************************************)
(* Field.__init__                                                          *)
(***************************************************************************)
NewField(column_name, attribute_type, default_value, default_value_generator, is_transient, value_parser, counter) ==
    [field_name |-> "None",
     name |-> column_name,
     type |-> attribute_type,
     default_value |-> default_value,
     default_value_generator |-> default_value_generator,
     is_transient |-> is_transient,
     value_parser |-> value_parser,
     creation_counter |-> counter]

(***************************************************************************)
(* DataframeEntityMetaClass.__new__                                        *)
(***************************************************************************)
\* list.sort(key=creation_counter): stable, ascending.  items is a sequence
\* of <<attribute name, field id>> in the order the dict handed them out.
RECURSIVE InsertByCounter(_, _, _)
InsertByCounter(h, sorted, item) ==
    IF sorted = <<>> THEN <<item>>
    ELSE IF h[item[2]].creation_counter < h[Head(sorted)[2]].creation_counter
         THEN <<item>> \o sorted
         ELSE <<Head(sorted)>> \o InsertByCounter(h, Tail(sorted), item)

SortMutant(h, its) == its

RECURSIVE SortByCreationCounter(_, _)
SortByCreationCounter(h, its) ==
    IF its = <<>> THEN <<>>
    ELSE InsertByCounter(h, SortByCreationCounter(h, SubSeq(its, 1, Len(its) - 1)),
                         its[Len(its)])

\* for name, field in ordered_fields: field.field_name = name; if
\* field.name is None: field.name = name
RECURSIVE NameFields(_, _)
NameFields(h, ordered) ==
    IF ordered = <<>> THEN h
    ELSE LET n == Head(ordered)[1]
             f == Head(ordered)[2]
             named == [h EXCEPT ![f].field_name = n,
                                ![f].name = IF h[f].name = "None" THEN n
                                            ELSE h[f].name]
         IN NameFields(named, Tail(ordered))

\* [] if bases[0] == _DataFrameEntity (base 0), else bases[0].fields()
BaseClassFields(cs, base) ==
    IF base = 0 THEN <<>> ELSE cs[base].ordered_fields

OrderedFieldsMutant(base_class_fields, ordered) ==
    [i \in 1..Len(ordered) |-> ordered[i][2]] \o base_class_fields

\* base_class_fields + [field for key, field in ordered_fields]
OrderedFields(base_class_fields, ordered) ==
    base_class_fields \o [i \in 1..Len(ordered) |-> ordered[i][2]]

\* The class statement's effect: the Field objects as the loop leaves them
\* and the new class.  its is attributes.items() in the dict's order.
ClassStatement(h, cs, base, attributes, order) ==
    LET its == [i \in 1..Len(order) |-> <<order[i], attributes[order[i]]>>]
        ordered == SortByCreationCounter(h, its)
    IN [heap |-> NameFields(h, ordered),
        class |-> [base |-> base,
                   attributes |-> attributes,
                   ordered_fields |->
                       OrderedFields(BaseClassFields(cs, base), ordered)]]

\* A Field is created: it takes the counter's value and the counter moves on.
FieldInit(column_name) ==
    /\ Len(heap) < MaxFields
    /\ heap' = Append(heap, NewField(column_name, "int", "None", "None", FALSE,
                                     "None", creation_counter))
    /\ creation_counter' = creation_counter + 1
    /\ UNCHANGED classes

\* A class statement with base class `base` whose body binds the attribute
\* names DOMAIN attributes to Field objects; order is the order in which
\* attributes.items() hands them out.
MetaNew(base, attributes, order) ==
    LET r == ClassStatement(heap, classes, base, attributes, order)
    IN /\ Len(classes) < MaxClasses + 1
       /\ heap' = r.heap
       /\ classes' = Append(classes, r.class)
       /\ UNCHANGED creation_counter

EmptyDict == [n \in {} |-> "None"]

\* The class bodies: the first k attribute names, each bound to a Field
\* object that no class body has bound before.
Unbound == {f \in 1..Len(heap) : heap[f].field_name = "None"}

Bodies ==
    UNION {[{AttributeNames[i] : i \in 1..k} -> Unbound] : k \in 0..Len(AttributeNames)}

\* class DataFrameEntity(_DataFrameEntity), made by the metaclass on import
DataFrameEntity == [base |-> 0, attributes |-> EmptyDict, ordered_fields |-> <<>>]

SchemaInit ==
    /\ creation_counter = 0
    /\ heap = <<>>
    /\ classes = <<DataFrameEntity>>

CreateField ==
    /\ \E column_name \in ColumnOverrides \cup {"None"} : FieldInit(column_name)
    /\ UNCHANGED <<recordVars, collVars>>

DefineClass ==
    /\ \E base \in 0..Len(classes), attributes \in Bodies :
         \E order \in DictOrders(DOMAIN attributes) :
             MetaNew(base, attributes, order)
    /\ UNCHANGED <<recordVars, collVars>>

SchemaNext == CreateField \/ DefineClass

(***************************************************************************)
(* Python values and the operations the coercion applies to them.          *)
(***************************************************************************)
StrValues == {"''", "'7'", "'8'", "'x'"}
IntValues == {"7", "8"}

\* isinstance(value, (str, unicode))
IsStr(v) == v \in StrValues

\* isinstance(value, t) for a declared type t
IsInstance(v, t) ==
    CASE t = "int" -> v \in IntValues
      [] t = "str" -> v \in StrValues
      [] OTHER -> FALSE

\* _is_null(value): None, or a scalar pandas.isnull accepts (NaN).  The
\* model holds no containers, records or collections as field values.
IsNull(v) == v \in {"None", "nan"}

\* field.type(value): int('7') is 7, int('x') raises ValueError, int of an
\* object that is no number raises TypeError; str(7) is '7'.
Cast(t, v) ==
    CASE t = "int" /\ v \in IntValues -> [exc |-> "None", value |-> v]
      [] t = "int" /\ v = "'7'" -> [exc |-> "None", value |-> "7"]
      [] t = "int" /\ v = "'8'" -> [exc |-> "None", value |-> "8"]
      [] t = "int" /\ v \in StrValues \ {"'7'", "'8'"} ->
             [exc |-> "ValueError", value |-> "None"]
      [] t = "int" -> [exc |-> "TypeError", value |-> "None"]
      [] t = "str" /\ v \in StrValues -> [exc |-> "None", value |-> v]
      [] OTHER -> [exc |-> "None", value |-> "'" \o v \o "'"]

\* The value_parser "P" of the model: a function of its argument that is
\* neither the identity nor idempotent.
ValueParser(v) == "P(" \o v \o ")"

\* The default_value_generator "gen8" of the model: returns the int 8.
DefaultValueGenerator(field) == "8"

\* dict.get(key, None)
Get(d, k) == IF k \in DOMAIN d THEN d[k] ELSE "None"

\* d[k] = v
Put(d, k, v) == [n \in DOMAIN d \cup {k} |-> IF n = k THEN v ELSE d[n]]

(***************************************************************************)
(* _DataFrameEntity                                                        *)
(***************************************************************************)
\* getattr(cls, name, None) along the class and its first bases; a Field
\* bound in a class body stays a class attribute.  <<>> stands for None.
RECURSIVE ClassAttr(_, _, _, _)
ClassAttr(h, cs, c, n) ==
    IF c = 0 THEN <<>>
    ELSE IF n \in DOMAIN cs[c].attributes THEN <<h[cs[c].attributes[n]]>>
    ELSE ClassAttr(h, cs, cs[c].base, n)

\* The record class c as the constructor sees it: cls.fields() and the
\* class attributes that are Fields.
RecordClass(h, cs, c) ==
    [fields |-> [i \in 1..Len(cs[c].ordered_fields) |-> h[cs[c].ordered_fields[i]]],
     attrs |-> [n \in {m \in Range(AttributeNames) \cup ColumnOverrides :
                         ClassAttr(h, cs, c, m) # <<>>}
                  |-> ClassAttr(h, cs, c, n)[1]]]

\* _get_field_by_field_name: getattr(cls, field_name, None) if it is a Field
GetFieldByFieldName(c, field_name) ==
    IF field_name \in DOMAIN c.attrs THEN <<c.attrs[field_name]>> ELSE <<>>

\* {field.name: field for field in self.fields()}: one entry per column
\* name, the last field of that name.
DictOfFields(c) ==
    LET names == {c.fields[i].name : i \in 1..Len(c.fields)}
        last(n) == CHOOSE i \in 1..Len(c.fields) :
                      /\ c.fields[i].name = n
                      /\ \A j \in 1..Len(c.fields) : c.fields[j].name = n => j <= i
    IN [n \in names |-> c.fields[last(n)]]

\* lines 21-24: default_value if the value is null and default_value is not
\* None, then the generator if the value is still null.
ApplyDefaultsMutant(field, input) ==
    LET v1 == IF IsNull(input) /\ field.default_value_generator # "None"
              THEN DefaultValueGenerator(field) ELSE input
        v2 == IF IsNull(v1) /\ field.default_value # "None"
              THEN field.default_value ELSE v1
    IN [value |-> v2,
        generated |-> IsNull(input) /\ field.default_value_generator # "None"]

ApplyDefaults(field, input) ==
    LET v1 == IF IsNull(input) /\ field.default_value # "None"
              THEN field.default_value ELSE input
        gen == IsNull(v1) /\ field.default_value_generator # "None"
        v2 == IF gen THEN DefaultValueGenerator(field) ELSE v1
    IN [value |-> v2, generated |-> gen]

\* convert_function of _get_default_field_value_parser(field), applied to
\* value; f is <<field>> or <<>> for None.  Reading field.type of None
\* raises AttributeError, and so does cls.logger.error with no logger set.
ConvertFunction(f, lg, value) ==
    IF IsNull(value) THEN [exc |-> "None", value |-> "None", log |-> <<>>, parsed |-> <<>>]
    ELSE IF f = <<>>
    THEN [exc |-> "AttributeError", value |-> "None", log |-> <<>>, parsed |-> <<>>]
    ELSE IF IsStr(value) /\ f[1].type # "str" /\ value = "''"
    THEN [exc |-> "None", value |-> "None", log |-> <<>>, parsed |-> <<>>]
    ELSE IF IsInstance(value, f[1].type)
    THEN [exc |-> "None", value |-> value, log |-> <<>>, parsed |-> <<>>]
    ELSE IF f[1].value_parser # "None"
    THEN [exc |-> "None", value |-> ValueParser(value), log |-> <<>>,
          parsed |-> <<value>>]
    ELSE LET r == Cast(f[1].type, value)
         IN IF r.exc = "None"
            THEN [exc |-> "None", value |-> r.value, log |-> <<>>, parsed |-> <<>>]
            ELSE IF lg = "None"
            THEN [exc |-> "AttributeError", value |-> "None", log |-> <<>>,
                  parsed |-> <<>>]
            ELSE [exc |-> r.exc, value |-> "None",
                  log |-> <<[level |-> "error", field |-> f[1].name,
                             value |-> value]>>,
                  parsed |-> <<>>]

\* _get_field_value_parser(field_name)(value): the field's value_parser if
\* the class has a Field attribute of that name with one, else the default
\* conversion for whatever the lookup found.
GetFieldValueParser(c, lg, field_name, value) ==
    LET f == GetFieldByFieldName(c, field_name)
    IN IF f # <<>> /\ f[1].value_parser # "None"
       THEN [exc |-> "None", value |-> ValueParser(value), log |-> <<>>,
             parsed |-> <<value>>]
       ELSE ConvertFunction(f, lg, value)

\* The body of __init__'s loop for the dict item (name, field).
InitField(c, lg, kw, name, field) ==
    LET input == Get(kw, field.field_name)
        d == ApplyDefaults(field, input)
        r == GetFieldValueParser(c, lg, name, d.value)
    IN [name |-> name, field |-> field, input |-> input, value |-> d.value,
        generated |-> d.generated, parsed |-> r.parsed, exc |-> r.exc,
        stored |-> r.value, log |-> r.log]

\* getattr(self, n, None): the instance's attribute, else the class's (a
\* Field object, written "<Field>"), else None.
GetAttrOrNone(c, sd, n) ==
    IF n \in DOMAIN sd THEN sd[n]
    ELSE IF n \in DOMAIN c.attrs THEN "<Field>" ELSE "None"

\* columns()
Columns(c) == [i \in 1..Len(c.fields) |-> c.fields[i].name]

\* field_values: an OrderedDict name -> getattr(self, field.field_name), as
\* the sequence of its items (a key set again keeps its first place).
FieldValues(c, sd) ==
    LET firstOf(n) == CHOOSE i \in 1..Len(c.fields) :
                         /\ c.fields[i].name = n
                         /\ \A j \in 1..Len(c.fields) : c.fields[j].name = n => i <= j
        lastOf(n) == CHOOSE i \in 1..Len(c.fields) :
                         /\ c.fields[i].name = n
                         /\ \A j \in 1..Len(c.fields) : c.fields[j].name = n => j <= i
        keep == {i \in 1..Len(c.fields) : firstOf(c.fields[i].name) = i}
        nth(k) == CHOOSE i \in keep : Cardinality({j \in keep : j < i}) = k - 1
    IN [k \in 1..Cardinality(keep) |->
           <<c.fields[nth(k)].name,
             GetAttrOrNone(c, sd, c.fields[lastOf(c.fields[nth(k)].name)].field_name)>>]

\* totuple(): getattr(self, column, None) for each column name
ToTuple(c, sd) == [i \in 1..Len(c.fields) |-> GetAttrOrNone(c, sd, c.fields[i].name)]

\* dict(zip(columns(), totuple()))
ZipToDict(cols, tup) ==
    LET lastOf(n) == CHOOSE i \in 1..Len(cols) :
                        /\ cols[i] = n
                        /\ \A j \in 1..Len(cols) : cols[j] = n => j <= i
    IN [n \in Range(cols) |-> tup[lastOf(n)]]

(***************************************************************************)
(* Record construction, one loop iteration at a time.                      *)
(***************************************************************************)
\* The keyword arguments tried: any value under a field's attribute name,
\* and a typed value under a column name that is no attribute name.
Inputs == {"None", "nan", "''", "'7'", "'x'", "7"}
ColumnInputs == {"'7'", "7"}

KeysOf(c) ==
    {c.fields[i].field_name : i \in 1..Len(c.fields)}
        \cup {c.fields[i].name : i \in 1..Len(c.fields)}

KwargsFor(c) ==
    LET attrKeys == {c.fields[i].field_name : i \in 1..Len(c.fields)}
    IN UNION {{kw \in [keys -> Inputs] :
                 \A k \in keys \ attrKeys : kw[k] \in ColumnInputs} :
              keys \in SUBSET KeysOf(c)}

\* dict.items() of {field.name: field ...} in the order `order`
ItemsIn(c, order) ==
    [i \in 1..Len(order) |-> <<order[i], DictOfFields(c)[order[i]]>>]

\* The calls one loop iteration made, in the order it made them.
CallsOf(r) ==
    (IF r.generated THEN <<[callee |-> "default_value_generator",
                            of |-> r.name, arg |-> r.name]>> ELSE <<>>)
    \o [i \in 1..Len(r.parsed) |->
           [callee |-> "value_parser", of |-> r.name, arg |-> r.parsed[i]]]

\* RecordType(**kw) is called: __init__ builds the dict of fields.
EntityStart ==
    /\ pc = "idle"
    /\ \E kw \in KwargsFor(cls) :
         \E order \in DictOrders(DOMAIN DictOfFields(cls)) :
            /\ kwargs' = kw
            /\ items' = ItemsIn(cls, order)
            /\ pc' = IF order = <<>> THEN "done" ELSE "init"
    /\ self_dict' = EmptyDict
    /\ UNCHANGED <<cls, logger, raised, log, calls, trace, first>>
    /\ UNCHANGED <<schemaVars, collVars>>

\* One iteration of __init__'s loop (lines 19-26); an exception leaves
\* __init__ and no record is produced.
EntityInitField ==
    /\ pc = "init"
    /\ LET r == InitField(cls, logger, kwargs, Head(items)[1], Head(items)[2])
       IN /\ trace' = Append(trace, [name |-> r.name, field |-> r.field,
                                     input |-> r.input, value |-> r.value,
                                     generated |-> r.generated,
                                     parsed |-> r.parsed, exc |-> r.exc,
                                     stored |-> r.stored])
          /\ calls' = calls \o CallsOf(r)
          /\ log' = log \o r.log
          /\ IF r.exc # "None"
             THEN /\ pc' = "raised"
                  /\ raised' = r.exc
                  /\ UNCHANGED <<items, self_dict>>
             ELSE /\ self_dict' = Put(self_dict, r.field.field_name, r.stored)
                  /\ items' = Tail(items)
                  /\ pc' = IF Tail(items) = <<>> THEN "done" ELSE "init"
                  /\ UNCHANGED raised
    /\ UNCHANGED <<cls, logger, kwargs, first>>
    /\ UNCHANGED <<schemaVars, collVars>>

\* RecordType(**dict(zip(RecordType.columns(), r.totuple()))) for the
\* record r just built; r.field_values is kept for comparison.
Rebuild ==
    /\ pc = "done"
    /\ Len(first) < MaxRebuilds
    /\ first' = Append(first, FieldValues(cls, self_dict))
    /\ kwargs' = ZipToDict(Columns(cls), ToTuple(cls, self_dict))
    /\ \E order \in DictOrders(DOMAIN DictOfFields(cls)) :
         /\ items' = ItemsIn(cls, order)
         /\ pc' = IF order = <<>> THEN "done" ELSE "init"
    /\ self_dict' = EmptyDict
    /\ trace' = <<>>
    /\ calls' = <<>>
    /\ UNCHANGED <<cls, logger, raised, log>>
    /\ UNCHANGED <<schemaVars, collVars>>

\* The Field declarations the record schemas are made of.
PrimaryFields ==
    {NewField(col, t, dv, gen, FALSE, vp, 0) :
        col \in ColumnOverrides \cup {"None"}, t \in {"int", "str"},
        dv \in {"None", "7", "nan"}, gen \in {"None", "gen8"},
        vp \in {"None", "P"}}

CompanionFields ==
    {NewField("None", t, "None", "None", FALSE, "None", 1) : t \in {"int", "str"}}

\* class R(DataFrameEntity): a = F1
SingleSchema(F1) ==
    LET r == ClassStatement(<<F1>>, <<DataFrameEntity>>, 1,
                            [n \in {"a"} |-> 1], <<"a">>)
    IN RecordClass(r.heap, <<DataFrameEntity, r.class>>, 2)

\* class R(DataFrameEntity): a = F1; b = F2
PairSchema(F1, F2) ==
    LET r == ClassStatement(<<F1, F2>>, <<DataFrameEntity>>, 1,
                            [n \in {"a", "b"} |-> IF n = "a" THEN 1 ELSE 2],
                            <<"b", "a">>)
    IN RecordClass(r.heap, <<DataFrameEntity, r.class>>, 2)

\* class Q(DataFrameEntity): a = F1, then class R(Q): a = F2
RedeclaredSchema(F1, F2) ==
    LET q == ClassStatement(<<F1, F2>>, <<DataFrameEntity>>, 1,
                            [n \in {"a"} |-> 1], <<"a">>)
        r == ClassStatement(q.heap, <<DataFrameEntity, q.class>>, 2,
                            [n \in {"a"} |-> 2], <<"a">>)
    IN RecordClass(r.heap, <<DataFrameEntity, q.class, r.class>>, 3)

Schemas ==
    {SingleSchema(F1) : F1 \in PrimaryFields}
        \cup {PairSchema(F1, F2) : F1 \in PrimaryFields, F2 \in CompanionFields}
        \cup {RedeclaredSchema(F1, F2) : F1 \in PrimaryFields, F2 \in CompanionFields}

RecordInit ==
    /\ cls \in Schemas
    /\ logger \in {"None", "logger"}
    /\ kwargs = EmptyDict
    /\ pc = "idle"
    /\ items = <<>>
    /\ self_dict = EmptyDict
    /\ raised = "None"
    /\ log = <<>>
    /\ calls = <<>>
    /\ trace = <<>>
    /\ first = <<>>

RecordNext == EntityStart \/ EntityInitField \/ Rebuild

\* No table operation has been performed yet.
NoResult ==
    [op |-> "none", item |-> "none", of |-> 0, exc |-> "None", kind |-> "none",
     table_shaped |-> FALSE, ref |-> 0]

\* A record class is declared and no record has been built yet.
RecordSpecInit ==
    /\ RecordInit
    /\ SchemaInit
    /\ coll = <<>> /\ iters = <<>> /\ warnings = <<>>
    /\ result = NoResult

RecordSpec == RecordSpecInit /\ [][RecordNext]_vars

(***************************************************************************)
(* CollectionClass.  A table is [columns, rows]: the column names in order *)
(* and one function column -> value per row.                               *)
(***************************************************************************)
\* The whole constructor: __init__'s loop over the dict items its, from the
\* instance dict sd.
RECURSIVE InitLoop(_, _, _, _, _)
InitLoop(c, lg, kw, its, sd) ==
    IF its = <<>> THEN [exc |-> "None", self_dict |-> sd, log |-> <<>>]
    ELSE LET r == InitField(c, lg, kw, Head(its)[1], Head(its)[2])
         IN IF r.exc # "None"
            THEN [exc |-> r.exc, self_dict |-> sd, log |-> r.log]
            ELSE InitLoop(c, lg, kw, Tail(its),
                          Put(sd, r.field.field_name, r.stored))

\* base_class(**kw), the dict handing out its items in `order`
Construct(c, lg, kw, order) == InitLoop(c, lg, kw, ItemsIn(c, order), EmptyDict)

\* self.base_class: the record class collection() was called with
BaseClass == cls

\* _get_base_class_additional_arguments(): dict()
BaseClassAdditionalArguments == EmptyDict

\* kwargs = dict(x); kwargs.update(extra)
RowKwargs(row) ==
    [k \in DOMAIN row \cup DOMAIN BaseClassAdditionalArguments |->
        IF k \in DOMAIN BaseClassAdditionalArguments
        THEN BaseClassAdditionalArguments[k] ELSE row[k]]

\* get_empty_dataframe(include_transient)
GetEmptyDataframe(include_transient) ==
    LET wanted(f) == include_transient \/ ~f.is_transient
        fs == SelectSeq(BaseClass.fields, wanted)
    IN [columns |-> [i \in 1..Len(fs) |-> fs[i].name], rows |-> <<>>]

\* What the table library offers on a table: head() is a method that
\* returns a table, count() a method that returns a Series, T a
\* table-valued property, shape a plain property; a column is also
\* reachable as an attribute.
TableMethods == {"head", "count"}
TableProperties == {"T", "shape"}

\* hasattr(self.dataframe, item)
HasAttr(df, item) == item \in TableMethods \cup TableProperties \cup Range(df.columns)

Transposed(df) ==
    [columns |-> [j \in 1..Len(df.rows) |-> "row"],
     rows |-> [i \in 1..Len(df.columns) |->
                 [k \in {"row"} |-> IF df.rows = <<>> THEN "None"
                                    ELSE df.rows[Len(df.rows)][df.columns[i]]]]]

\* The object a method call or a property of the table yields:
\* [table_shaped, table] with table meaningful when table_shaped.
NoTable == [columns |-> <<>>, rows |-> <<>>]

TableResult(df, item) ==
    CASE item = "head" ->
           [table_shaped |-> TRUE,
            table |-> [columns |-> df.columns,
                       rows |-> SubSeq(df.rows, 1, Min(1, Len(df.rows)))]]
      [] item = "T" -> [table_shaped |-> TRUE, table |-> Transposed(df)]
      [] OTHER -> [table_shaped |-> FALSE, table |-> NoTable]

\* self.dataframe[item]: a list of column names or a row mask selects a
\* table, one column name a Series.
Subscripts == {"columns", "mask", "column"}

SubscriptTableShaped(item) == item \in {"columns", "mask"}

\* required_columns of magic_trick (line 192): reading field.no_select, an
\* attribute no Field has, raises AttributeError for the first field.
RequiredColumns(c) ==
    IF Len(c.fields) > 0
    THEN [exc |-> "AttributeError", columns |-> <<>>]
    ELSE [exc |-> "None", columns |-> <<>>]

\* magic_trick(obj) for a table obj, on the collection me: the outcome, the
\* warnings logged and the collection it built.
MagicTrickTable(me, table) ==
    LET req == RequiredColumns(BaseClass)
        missing == SelectSeq(req.columns, LAMBDA n : n \notin Range(table.columns))
    IN IF req.exc # "None"
       THEN [exc |-> req.exc, warnings |-> <<>>, wrapped |-> <<>>]
       ELSE [exc |-> "None",
             warnings |-> IF Len(missing) > 0
                          THEN <<[level |-> "warning", missing |-> missing]>>
                          ELSE <<>>,
             wrapped |-> <<[dataframe |-> table, attrs |-> me.attrs]>>]

\* The delegated result obj, through magic_trick, as the caller receives it.
Delegated(op, item, c, r) ==
    LET m == MagicTrickTable(coll[c], r.table)
    IN IF ~r.table_shaped
       THEN /\ result' = [op |-> op, item |-> item, of |-> c, exc |-> "None",
                          kind |-> "value", table_shaped |-> FALSE, ref |-> 0]
            /\ UNCHANGED <<coll, warnings>>
       ELSE IF m.exc # "None"
       THEN /\ result' = [op |-> op, item |-> item, of |-> c, exc |-> m.exc,
                          kind |-> "raised", table_shaped |-> TRUE, ref |-> 0]
            /\ UNCHANGED <<coll, warnings>>
       ELSE /\ coll' = coll \o m.wrapped
            /\ warnings' = warnings \o m.warnings
            /\ result' = [op |-> op, item |-> item, of |-> c, exc |-> "None",
                          kind |-> "collection", table_shaped |-> TRUE,
                          ref |-> Len(coll) + 1]

\* CollectionClass(other_collection): wraps the other's table.
CollectionInit ==
    /\ Len(coll) < MaxColls
    /\ \E c \in 1..Len(coll) :
         coll' = Append(coll, [dataframe |-> coll[c].dataframe, attrs |-> EmptyDict])
    /\ UNCHANGED <<iters, result, warnings>>
    /\ UNCHANGED <<schemaVars, recordVars>>

\* CollectionClass(None, include_transient): a fresh empty table.
CollectionInitEmpty ==
    /\ Len(coll) < MaxColls
    /\ \E include_transient \in BOOLEAN :
         coll' = Append(coll, [dataframe |-> GetEmptyDataframe(include_transient),
                               attrs |-> EmptyDict])
    /\ UNCHANGED <<iters, result, warnings>>
    /\ UNCHANGED <<schemaVars, recordVars>>

\* collection.tag = "1": the caller sets an instance attribute.
SetAttribute ==
    /\ \E c \in 1..Len(coll) :
         /\ coll[c].attrs = EmptyDict
         /\ coll' = [coll EXCEPT ![c].attrs = Put(coll[c].attrs, "tag", "1")]
    /\ UNCHANGED <<iters, result, warnings>>
    /\ UNCHANGED <<schemaVars, recordVars>>

\* iter(collection): a generator positioned before the first row.
Iter ==
    /\ Len(iters) < MaxIters
    /\ \E c \in 1..Len(coll) :
         iters' = Append(iters, [of |-> c, pos |-> 0, yielded |-> <<>>,
                                 status |-> "suspended", exc |-> "None"])
    /\ UNCHANGED <<coll, result, warnings>>
    /\ UNCHANGED <<schemaVars, recordVars>>

\* The row generator i takes next: iterrows() walks the table of its own
\* collection from the generator's own position.
IterRowMutant(its, i) ==
    1 + Len(its[CHOOSE j \in 1..Len(its) :
                   /\ its[j].of = its[i].of
                   /\ \A k \in 1..Len(its) :
                        its[k].of = its[i].of => its[k].pos <= its[j].pos].yielded)

IterRow(its, i) == its[i].pos + 1

\* next(generator): the loop body of __iter__ up to its yield, or the end
\* of the loop, or the exception base_class(**kwargs) raises.
IterNext ==
    /\ \E i \in 1..Len(iters) :
         LET it == iters[i]
             rows == coll[it.of].dataframe.rows
             k == IterRow(iters, i)
         IN /\ it.status = "suspended"
            /\ IF k > Len(rows)
               THEN /\ iters' = [iters EXCEPT ![i].status = "exhausted"]
                    /\ UNCHANGED log
               ELSE \E order \in DictOrders(DOMAIN DictOfFields(BaseClass)) :
                      LET r == Construct(BaseClass, logger, RowKwargs(rows[k]), order)
                      IN /\ log' = log \o r.log
                         /\ IF r.exc # "None"
                            THEN iters' = [iters EXCEPT ![i].status = "raised",
                                                        ![i].exc = r.exc]
                            ELSE iters' = [iters EXCEPT
                                     ![i].pos = k,
                                     ![i].yielded =
                                         Append(@, FieldValues(BaseClass, r.self_dict))]
    /\ UNCHANGED <<coll, result, warnings>>
    /\ UNCHANGED <<schemaVars, cls, logger, kwargs, pc, items, self_dict, raised,
                   calls, trace, first>>

\* collection.item (__getattr__): a method comes back as the deferred
\* wrapper func, anything else goes through magic_trick at once.
GetAttr ==
    /\ \E c \in 1..Len(coll), item \in TableMethods \cup TableProperties
                                        \cup {"no_such"} :
         LET df == coll[c].dataframe
         IN IF ~HasAttr(df, item)
            THEN /\ result' = [op |-> "getattr", item |-> item, of |-> c,
                               exc |-> "AttributeError", kind |-> "raised",
                               table_shaped |-> FALSE, ref |-> 0]
                 /\ UNCHANGED <<coll, warnings>>
            ELSE IF item \in TableMethods
            THEN /\ result' = [op |-> "getattr", item |-> item, of |-> c,
                               exc |-> "None", kind |-> "func",
                               table_shaped |-> FALSE, ref |-> 0]
                 /\ UNCHANGED <<coll, warnings>>
            ELSE /\ Len(coll) < MaxColls
                 /\ Delegated("getattr", item, c, TableResult(df, item))
    /\ UNCHANGED iters
    /\ UNCHANGED <<schemaVars, recordVars>>

\* func(*args, **kwargs) of magic_trick: calls the table's method and sends
\* what it returns through magic_trick.
CallFunc ==
    /\ result.kind = "func"
    /\ Len(coll) < MaxColls
    /\ Delegated("call", result.item, result.of,
                 TableResult(coll[result.of].dataframe, result.item))
    /\ UNCHANGED iters
    /\ UNCHANGED <<schemaVars, recordVars>>

\* collection[item] (__getitem__): self.magic_track is looked up first, and
\* __getattr__ finds it on the table only if a column bears that name (a
\* Series, which is not callable).
GetItem ==
    /\ \E c \in 1..Len(coll), item \in Subscripts :
         LET df == coll[c].dataframe
         IN result' = [op |-> "getitem", item |-> item, of |-> c,
                       exc |-> IF HasAttr(df, "magic_track")
                               THEN "TypeError" ELSE "AttributeError",
                       kind |-> "raised",
                       table_shaped |-> SubscriptTableShaped(item), ref |-> 0]
    /\ UNCHANGED <<coll, iters, warnings>>
    /\ UNCHANGED <<schemaVars, recordVars>>

\* The record classes the collections are built on, and the tables.
EmptySchema ==
    RecordClass(<<>>, <<DataFrameEntity,
                        [base |-> 1, attributes |-> EmptyDict,
                         ordered_fields |-> <<>>]>>, 2)

CollectionSchemas ==
    {EmptySchema,
     SingleSchema(NewField("None", "int", "None", "None", FALSE, "None", 0)),
     PairSchema(NewField("None", "int", "None", "None", FALSE, "None", 0),
                NewField("None", "str", "None", "None", TRUE, "None", 1))}

CellValues == {"7", "'x'"}

ColumnLists == {<<"a">>, <<"a", "b">>}

Tables ==
    UNION {{[columns |-> cols, rows |-> rows] :
               rows \in UNION {[1..n -> {row \in [Range(cols) -> CellValues] :
                                           \A k \in DOMAIN row \ {"a"} : row[k] = "'x'"}] :
                                 n \in 0..MaxRows}} :
           cols \in ColumnLists}

CollectionInitial ==
    /\ cls \in CollectionSchemas
    /\ logger \in {"None", "logger"}
    /\ \E t \in Tables : coll = <<[dataframe |-> t, attrs |-> EmptyDict]>>
    /\ iters = <<>>
    /\ result = NoResult
    /\ warnings = <<>>
    /\ kwargs = EmptyDict /\ pc = "idle" /\ items = <<>>
    /\ self_dict = EmptyDict /\ raised = "None" /\ log = <<>>
    /\ calls = <<>> /\ trace = <<>> /\ first = <<>>

\* Delegation and re-wrapping.
CollectionNext ==
    \/ CollectionInit
    \/ CollectionInitEmpty
    \/ SetAttribute
    \/ GetAttr
    \/ CallFunc
    \/ GetItem

\* A collection class wraps one table.
CollectionSpecInit == CollectionInitial /\ SchemaInit

CollectionSpec == CollectionSpecInit /\ [][CollectionNext]_vars

\* Iteration of one collection by several generators.
IterationNext ==
    \/ SetAttribute
    \/ Iter
    \/ IterNext

IterationSpec == CollectionSpecInit /\ [][IterationNext]_vars

\* The state on import, before any record class is declared.
SchemaSpecInit ==
    /\ SchemaInit
    /\ cls = <<>> /\ logger = "None" /\ kwargs = EmptyDict /\ pc = "idle"
    /\ items = <<>> /\ self_dict = EmptyDict /\ raised = "None" /\ log = <<>>
    /\ calls = <<>> /\ trace = <<>> /\ first = <<>>
    /\ coll = <<>> /\ iters = <<>> /\ result = NoResult /\ warnings = <<>>

SchemaSpec == SchemaSpecInit /\ [][SchemaNext]_vars

(***************************************************************************)
(* C2: construction reads every field's input from the keyword mapping     *)
(* under the field's column_name, so a value supplied under the            *)
(* column_name reaches field_values().                                     *)
(***************************************************************************)
ValueOf(fv, n) == (CHOOSE i \in 1..Len(fv) : fv[i][1] = n)

C2_ReadsUnderColumnName ==
    /\ \A i \in 1..Len(trace) :
          trace[i].input = Get(kwargs, trace[i].field.name)
    /\ pc = "done" /\ first = <<>> =>
          \A i \in 1..Len(cls.fields) :
             LET f == cls.fields[i]
                 v == Get(kwargs, f.name)
                 fv == FieldValues(cls, self_dict)
             IN (/\ ~IsNull(v)
                 /\ IsInstance(v, f.type)
                 /\ f.value_parser = "None"
                 /\ DictOfFields(cls)[f.name] = f)
                => fv[ValueOf(fv, f.name)][2] = v

(***************************************************************************)
(* C3: for a non-text field without a custom parser, an empty-text input   *)
(* stores what a null input stores (the default, else the generator's      *)
(* result, else absence).  Stated for the fields the class attribute       *)
(* lookup by column name finds.                                            *)
(***************************************************************************)
C3_EmptyTextAsNull ==
    \A i \in 1..Len(trace) :
        LET e == trace[i]
            null == InitField(cls, logger, Put(kwargs, e.field.field_name, "None"),
                              e.name, e.field)
        IN (/\ e.input = "''"
            /\ e.field.type # "str"
            /\ e.field.value_parser = "None"
            /\ GetFieldByFieldName(cls, e.name) = <<e.field>>)
           => (e.exc = null.exc /\ e.stored = null.stored)

(***************************************************************************)
(* C4: rebuilding a record from zip(columns(), r.to_tuple()) yields a      *)
(* record whose field_values() equals r.field_values().  Stated for the    *)
(* schemas without a custom parser.                                        *)
(***************************************************************************)
C4_RoundTrip ==
    (/\ first # <<>>
     /\ pc \in {"done", "raised"}
     /\ \A i \in 1..Len(cls.fields) : cls.fields[i].value_parser = "None")
    => (pc = "done" /\ FieldValues(cls, self_dict) = first[Len(first)])

(***************************************************************************)
(* C5: a delegated attribute or method of the table that yields a          *)
(* table-shaped result returns a new collection of the same class wrapping *)
(* that result, never a failure, whatever columns the result has.          *)
(***************************************************************************)
C5_TableResultRewrapped ==
    (result.op \in {"getattr", "call"} /\ result.table_shaped)
    => (/\ result.exc = "None"
        /\ result.kind = "collection"
        /\ coll[result.ref].dataframe =
               TableResult(coll[result.of].dataframe, result.item).table)

(***************************************************************************)
(* C6: collection[item] re-wraps like delegated attribute access: a        *)
(* table-shaped result comes back as a collection of the same class, any   *)
(* other result unchanged.                                                 *)
(***************************************************************************)
C6_SubscriptRewrapped ==
    result.op = "getitem"
    => (/\ result.exc = "None"
        /\ result.kind = IF result.table_shaped THEN "collection" ELSE "value")

(***************************************************************************)
(* C7: for a field with a value_parser and a default, on null input the    *)
(* default is resolved first, the parser is called exactly once with the   *)
(* defaulted non-null value, and the parser's result is what is stored.    *)
(***************************************************************************)
C7_ParserGetsDefault ==
    \A i \in 1..Len(trace) :
        LET e == trace[i]
            f == e.field
        IN (/\ f.value_parser # "None"
            /\ (f.default_value # "None" \/ f.default_value_generator # "None")
            /\ IsNull(e.input)
            /\ ~IsNull(e.value))
           => (/\ e.parsed = <<e.value>>
               /\ e.exc = "None"
               /\ e.stored = ValueParser(e.value))

(***************************************************************************)
(* C8: when a non-null value cannot be cast to the declared type of a      *)
(* field without a parser, construction fails with the conversion error,   *)
(* which is logged at error severity before it propagates.  Stated for     *)
(* the fields the class attribute lookup by column name finds.             *)
(***************************************************************************)
CannotCast(f, v) ==
    /\ ~IsNull(v)
    /\ ~(v = "''" /\ f.type # "str")
    /\ ~IsInstance(v, f.type)
    /\ Cast(f.type, v).exc # "None"

C8_ConversionErrorLogged ==
    \A i \in 1..Len(trace) :
        LET e == trace[i]
            f == e.field
        IN (/\ f.value_parser = "None"
            /\ GetFieldByFieldName(cls, e.name) = <<f>>
            /\ CannotCast(f, e.value))
           => (/\ pc = "raised"
               /\ raised = Cast(f.type, e.value).exc
               /\ \E k \in 1..Len(log) :
                     log[k].level = "error" /\ log[k].field = f.name)

(***************************************************************************)
(* C9: on null input default_value is used if it is non-null and the       *)
(* generator is then not invoked; the generator is invoked only when the   *)
(* value is still null after default_value was applied; on non-null input  *)
(* neither default is applied.                                             *)
(***************************************************************************)
C9_DefaultPrecedence ==
    \A i \in 1..Len(trace) :
        LET e == trace[i]
            f == e.field
            afterDefault == IF IsNull(e.input) /\ f.default_value # "None"
                            THEN f.default_value ELSE e.input
        IN /\ (IsNull(e.input) /\ ~IsNull(f.default_value))
                => (e.value = f.default_value /\ ~e.generated)
           /\ e.generated
                => (/\ f.default_value_generator # "None"
                    /\ IsNull(afterDefault)
                    /\ e.value = DefaultValueGenerator(f)
                    /\ \E k \in 1..Len(calls) :
                          /\ calls[k].callee = "default_value_generator"
                          /\ calls[k].arg = e.name)
           /\ ~IsNull(e.input) => (e.value = e.input /\ ~e.generated)

\* A field with both defaults was given a null input: default_value won and
\* the generator was not called; another took the generator's value.
C9_Witness ==
    \E i \in 1..Len(trace) :
        /\ IsNull(trace[i].input)
        /\ trace[i].field.default_value = "7"
        /\ trace[i].field.default_value_generator = "gen8"
        /\ trace[i].value = "7"
        /\ ~trace[i].generated

(***************************************************************************)
(* C10: iterating a collection leaves its table and attributes unchanged,  *)
(* and every generator started on it, also one begun after or during       *)
(* another, yields the records of the table's rows in row order, one per   *)
(* row, until the table ends; a generator stops short only where building  *)
(* the record of the next row raises.                                      *)
(***************************************************************************)
RecordOfRow(row) ==
    Construct(BaseClass, logger, RowKwargs(row),
              CHOOSE order \in DictOrders(DOMAIN DictOfFields(BaseClass)) : TRUE)

C10_YieldsRowsInOrder ==
    \A i \in 1..Len(iters) :
        LET it == iters[i]
            rows == coll[it.of].dataframe.rows
        IN /\ it.pos = Len(it.yielded)
           /\ Len(it.yielded) <= Len(rows)
           /\ \A k \in 1..Len(it.yielded) :
                /\ RecordOfRow(rows[k]).exc = "None"
                /\ it.yielded[k] =
                       FieldValues(BaseClass, RecordOfRow(rows[k]).self_dict)
           /\ it.status = "exhausted" => Len(it.yielded) = Len(rows)
           /\ it.status = "raised" =>
                /\ Len(it.yielded) < Len(rows)
                /\ RecordOfRow(rows[Len(it.yielded) + 1]).exc = it.exc
                /\ it.exc # "None"

C10_IterationLeavesCollection == iters' # iters => coll' = coll

C10_IterationRestartable ==
    [](C10_YieldsRowsInOrder) /\ [][C10_IterationLeavesCollection]_vars

\* One generator ran a two-row table to its end and another, on the same
\* collection with an attribute set, has yielded both rows too.
C10_Witness ==
    /\ Len(iters) = 2
    /\ iters[1].of = iters[2].of
    /\ iters[1].status = "exhausted"
    /\ Len(iters[1].yielded) = 2
    /\ Len(iters[2].yielded) = 2
    /\ coll[iters[1].of].attrs # EmptyDict

(***************************************************************************)
(* C1: for every class T made with immediate ancestor A, T.fields() is     *)
(* A.fields() (same descriptors, same order) followed by the fields bound  *)
(* in T's own body in ascending creation-counter order, and no class       *)
(* statement changes the fields() of a class that already exists.          *)
(***************************************************************************)
OwnFields(T) ==
    SubSeq(T.ordered_fields,
           Len(BaseClassFields(classes, T.base)) + 1, Len(T.ordered_fields))

C1_PrefixAndSorted ==
    \A t \in 1..Len(classes) :
        LET T == classes[t]
            A == BaseClassFields(classes, T.base)
            own == OwnFields(T)
        IN /\ Len(T.ordered_fields) = Len(A) + Cardinality(DOMAIN T.attributes)
           /\ SubSeq(T.ordered_fields, 1, Len(A)) = A
           /\ \A f \in 1..Len(heap) :
                Cardinality({i \in 1..Len(own) : own[i] = f}) =
                Cardinality({n \in DOMAIN T.attributes : T.attributes[n] = f})
           /\ \A i, j \in 1..Len(own) :
                i < j => heap[own[i]].creation_counter
                             <= heap[own[j]].creation_counter

C1_AncestorUnchanged ==
    \A c \in 1..Len(classes) :
        classes'[c].ordered_fields = classes[c].ordered_fields

C1_FieldsOrder == [](C1_PrefixAndSorted) /\ [][C1_AncestorUnchanged]_vars

\* A class with two own fields bound out of creation order behind a
\* non-empty inherited schema.
C1_Witness ==
    \E t \in 1..Len(classes) :
        /\ classes[t].base # 0
        /\ Len(BaseClassFields(classes, classes[t].base)) > 0
        /\ Len(OwnFields(classes[t])) >= 2
        /\ OwnFields(classes[t])[1] # OwnFields(classes[t])[2]
=============================================================================
